---- MODULE Spec2Model ----
(***************************************************************************)
(* Model of speedtest_analyzer/scripts/visualize.py: parse_speedtest_log,  *)
(* visualize_speed_over_time and main.                                     *)
(*                                                                         *)
(* A run is one sequential execution.  pc is the position in the code.     *)
(* The log file, the caller, the directories that exist and the outcome of *)
(* savefig are the inputs.                                                 *)
(* Throughput values are exact rationals (numerator / denominator, kept    *)
(* in lowest terms); NaN is the missing value pandas stores for an empty   *)
(* cell.  Library calls behave as pandas / matplotlib / Python document    *)
(* them; the only environment failure modelled is the one savefig can      *)
(* raise (creating the output directory and the other plotting calls are   *)
(* taken to succeed).                                                      *)
(***************************************************************************)
EXTENDS Integers, Sequences, FiniteSets, TLC

VARIABLES
    file,        \* the log file on disk: kind, header (column names), rows
    caller,      \* "main": main() runs; "direct": parse then visualize called directly
    output_dir,  \* the output_dir argument of visualize_speed_over_time ("None" when absent)
    dirs,        \* directories that exist
    pc,          \* position in the code
    df,          \* result of parse_speedtest_log
    events,      \* console lines and rendering calls, in the order they happen
    ylimits,     \* the limits given to plt.ylim
    annotations, \* the plt.text calls made
    saved,       \* image files written
    stats,       \* the statistics block printed
    exception    \* the exception that escaped to the top level ("none" if none)

vars == <<file, caller, output_dir, dirs, pc, df, events, ylimits, annotations,
          saved, stats, exception>>

----------------------------------------------------------------------------
(* Bounds of the model *)

\* files of at most MaxShort rows carry arbitrary cells in every row
MaxShort == 2
\* files of up to MaxLong rows are well-formed except for at most one arbitrary row
MaxLong == 11

----------------------------------------------------------------------------
(* Numbers: exact rationals and NaN *)

Abs(a) == IF a < 0 THEN -a ELSE a

RECURSIVE GCD(_, _)
GCD(a, b) == IF b = 0 THEN a ELSE GCD(b, a % b)

NaN == [nan |-> TRUE, n |-> 0, d |-> 1]

\* n / d in lowest terms, d > 0
Rat(n, d) ==
    LET g == GCD(Abs(n), d)
    IN  [nan |-> FALSE, n |-> n \div g, d |-> d \div g]

\* float comparisons: every comparison with NaN is false
Lt(x, y) == ~x.nan /\ ~y.nan /\ x.n * y.d < y.n * x.d

Add(x, y) == IF x.nan \/ y.nan THEN NaN ELSE Rat(x.n * y.d + y.n * x.d, x.d * y.d)

\* x * (p / q)
Mul(x, p, q) == IF x.nan THEN NaN ELSE Rat(x.n * p, x.d * q)

\* x / k for an integer k > 0
Div(x, k) ==
    IF x.nan THEN NaN
    ELSE LET g == GCD(Abs(x.n), k)
         IN  Rat(x.n \div g, x.d * (k \div g))

----------------------------------------------------------------------------
(* The log file *)

Columns == {"Timestamp", "Download", "Upload"}

\* A throughput cell of the CSV text: a number, nothing, or other text.  A Timestamp
\* cell is text that pd.to_datetime either parses or rejects (empty Timestamp cells,
\* which it turns into NaT, are not among the inputs).
Num(v) == [k |-> "num", v |-> v]
EmptyCell == [k |-> "empty", v |-> 0]
TextCell == [k |-> "text", v |-> 0]

T0 == "2024-01-01 00:00:00"
T1 == "2024-01-01 01:00:00"
TBad == "not-a-time"

TimestampTexts == {T0, T1, TBad}
DownloadCells == {Num(100000000), Num(-20000000), EmptyCell, TextCell}
UploadCells == {Num(50000000), EmptyCell, TextCell}

RawRows == [Timestamp : TimestampTexts, Download : DownloadCells, Upload : UploadCells]

\* the i-th row of a well-formed log
FillRow(i) ==
    IF i % 2 = 1
    THEN [Timestamp |-> T0, Download |-> Num(100000000), Upload |-> Num(50000000)]
    ELSE [Timestamp |-> T1, Download |-> Num(80000000), Upload |-> Num(40000000)]

FillRows(n) == [i \in 1..n |-> FillRow(i)]

ShortRowSeqs == UNION {[1..n -> RawRows] : n \in 0..MaxShort}

LongRowSeqs ==
    {FillRows(n) : n \in 0..MaxLong}
    \cup UNION {{[FillRows(n) EXCEPT ![p] = r] : p \in 1..n, r \in RawRows} : n \in 1..MaxLong}

Table(header, rows) == [kind |-> "table", header |-> header, rows |-> rows]
MissingFile == [kind |-> "missing", header |-> {}, rows |-> <<>>]
\* a file of zero bytes
EmptyFile == [kind |-> "empty", header |-> {}, rows |-> <<>>]

Files ==
    {MissingFile, EmptyFile}
    \cup {Table(Columns, rows) : rows \in ShortRowSeqs \cup LongRowSeqs}
    \cup {Table(h, FillRows(n)) : h \in (SUBSET Columns) \ {Columns}, n \in 0..MaxLong}

----------------------------------------------------------------------------
(* parse_speedtest_log *)

MBPS_DIVISOR == 1000000

\* the result of a library call: the error it raised ("none" if it returned) and its value
Returned(v) == [error |-> "none", value |-> v]
Raised(e) == [error |-> e, value |-> <<>>]

\* pd.read_csv(log_file)
ReadCsv(f) ==
    CASE f.kind = "missing" -> Raised("FileNotFoundError")
      [] f.kind = "empty" -> Raised("EmptyDataError")
      [] OTHER -> Returned(f)

\* the point in time a timestamp text denotes, in minutes since 2024-01-01 00:00
ParseTime(text) ==
    CASE text = T0 -> [ok |-> TRUE, t |-> 0]
      [] text = T1 -> [ok |-> TRUE, t |-> 60]
      [] OTHER -> [ok |-> FALSE, t |-> 0]

\* pd.to_datetime(df["Timestamp"])
ToDatetime(f) ==
    IF "Timestamp" \notin f.header THEN Raised("KeyError")
    ELSE IF \E i \in 1..Len(f.rows) : ~ParseTime(f.rows[i].Timestamp).ok
    THEN Raised("ValueError")
    ELSE Returned([i \in 1..Len(f.rows) |-> ParseTime(f.rows[i].Timestamp).t])

\* the value read_csv stores for a cell of a numeric column
ToFloat(cell) == IF cell.k = "num" THEN Rat(cell.v, 1) ELSE NaN

\* df[c]: a column is numeric unless some cell holds text, and then it holds strings
Column(f, c) ==
    IF c \notin f.header THEN Raised("KeyError")
    ELSE IF \E i \in 1..Len(f.rows) : f.rows[i][c].k = "text"
    THEN Returned([dtype |-> "object", values |-> <<>>])
    ELSE Returned([dtype |-> "float", values |-> [i \in 1..Len(f.rows) |-> ToFloat(f.rows[i][c])]])

\* variant: the binary mega (2^20) as the divisor
ToMbps_mebi(x) == Div(x, 1048576)

ToMbps(x) == Div(x, MBPS_DIVISOR)

\* df[c] / 1_000_000: dividing a string raises TypeError
DivideColumn(f, c) ==
    LET col == Column(f, c)
    IN  IF col.error # "none" THEN col
        ELSE IF col.value.dtype = "object" THEN Raised("TypeError")
        ELSE Returned([i \in 1..Len(col.value.values) |-> ToMbps(col.value.values[i])])

NoneDF == [isNone |-> TRUE, rows |-> <<>>]
DataFrame(rows) == [isNone |-> FALSE, rows |-> rows]

\* variant: rows that do not convert are dropped instead of failing the parse
TryParse_skip_bad_rows(f) ==
    IF ReadCsv(f).error # "none" THEN Raised(ReadCsv(f).error)
    ELSE IF ~(Columns \subseteq f.header) THEN Raised("KeyError")
    ELSE LET good == SelectSeq(f.rows, LAMBDA r : /\ ParseTime(r.Timestamp).ok
                                                  /\ r.Download.k # "text"
                                                  /\ r.Upload.k # "text")
         IN  Returned(DataFrame(
                [i \in 1..Len(good) |->
                    [Timestamp |-> ParseTime(good[i].Timestamp).t,
                     Download |-> ToFloat(good[i].Download),
                     Upload |-> ToFloat(good[i].Upload),
                     Download_Mbps |-> ToMbps(ToFloat(good[i].Download)),
                     Upload_Mbps |-> ToMbps(ToFloat(good[i].Upload))]]))

\* the body of the try block: the first error raised, or the frame returned
TryParse(f) ==
    LET rd == ReadCsv(f)
        ts == ToDatetime(f)
        dl == DivideColumn(f, "Download")
        ul == DivideColumn(f, "Upload")
    IN  IF rd.error # "none" THEN Raised(rd.error)
        ELSE IF ts.error # "none" THEN Raised(ts.error)
        ELSE IF dl.error # "none" THEN Raised(dl.error)
        ELSE IF ul.error # "none" THEN Raised(ul.error)
        ELSE Returned(DataFrame(
                [i \in 1..Len(f.rows) |->
                    [Timestamp |-> ts.value[i],
                     Download |-> Column(f, "Download").value.values[i],
                     Upload |-> Column(f, "Upload").value.values[i],
                     Download_Mbps |-> dl.value[i],
                     Upload_Mbps |-> ul.value[i]]]))

\* variant: an except clause that names only the conversion errors
Caught_conversion_only(e) == e \in {"KeyError", "ValueError", "TypeError"}

\* except Exception: every error the try block raises is an Exception
Caught(e) == e \in {"FileNotFoundError", "EmptyDataError", "KeyError", "ValueError", "TypeError"}

ParseSpeedtestLog ==
    /\ pc = "parse"
    /\ LET r == TryParse(file)
       IN  IF r.error = "none"
           THEN /\ df' = r.value
                /\ events' = events
                /\ pc' = "visualize"
                /\ exception' = exception
           ELSE IF Caught(r.error)
           THEN /\ df' = NoneDF
                /\ events' = Append(events, "parse_error: " \o r.error)
                /\ pc' = "visualize"
                /\ exception' = exception
           ELSE /\ df' = df
                /\ events' = events
                /\ pc' = "crashed"
                /\ exception' = r.error
    /\ UNCHANGED <<file, caller, output_dir, dirs, ylimits, annotations, saved, stats>>

----------------------------------------------------------------------------
(* visualize_speed_over_time *)

ANNOTATION_LIMIT == 10

\* variant: the df.empty test left out
IsEmptyOrNone_none_only(d) == d.isNone

\* if df is None or df.empty
IsEmptyOrNone(d) == d.isNone \/ Len(d.rows) = 0

VisualizeNoData ==
    /\ pc = "visualize"
    /\ IsEmptyOrNone(df)
    /\ events' = Append(events, "no_data")
    /\ pc' = "done"
    /\ UNCHANGED <<file, caller, output_dir, dirs, df, ylimits, annotations, saved, stats,
                   exception>>

\* plt.figure, the two plt.plot calls, axis formatting, title, labels, legend, grid
Plot ==
    /\ pc = "visualize"
    /\ ~IsEmptyOrNone(df)
    /\ events' = Append(events, "plot")
    /\ pc' = "ylim"
    /\ UNCHANGED <<file, caller, output_dir, dirs, df, ylimits, annotations, saved, stats,
                   exception>>

\* df[c]
Series(d, c) == [i \in 1..Len(d.rows) |-> d.rows[i][c]]

\* the values of a series that are not NaN (pandas reductions skip NaN)
Present(s) == SelectSeq(s, LAMBDA x : ~x.nan)

\* Python's min(a, b) and max(a, b): the first argument unless the second compares
\* strictly smaller (larger)
PyMin(a, b) == IF Lt(b, a) THEN b ELSE a
PyMax(a, b) == IF Lt(a, b) THEN b ELSE a

RECURSIVE FoldMin(_), FoldMax(_), FoldSum(_)
FoldMin(s) == IF Len(s) = 1 THEN s[1] ELSE PyMin(s[1], FoldMin(Tail(s)))
FoldMax(s) == IF Len(s) = 1 THEN s[1] ELSE PyMax(s[1], FoldMax(Tail(s)))
FoldSum(s) == IF Len(s) = 0 THEN Rat(0, 1) ELSE Add(s[1], FoldSum(Tail(s)))

\* Series.min(), Series.max(), Series.mean(): NaN when no value is present
SeriesMin(s) == IF Present(s) = <<>> THEN NaN ELSE FoldMin(Present(s))
SeriesMax(s) == IF Present(s) = <<>> THEN NaN ELSE FoldMax(Present(s))
SeriesMean(s) == IF Present(s) = <<>> THEN NaN ELSE Div(FoldSum(Present(s)), Len(Present(s)))

YMin(d) == Mul(PyMin(SeriesMin(Series(d, "Download_Mbps")), SeriesMin(Series(d, "Upload_Mbps"))), 9, 10)
YMax(d) == Mul(PyMax(SeriesMax(Series(d, "Download_Mbps")), SeriesMax(Series(d, "Upload_Mbps"))), 11, 10)

\* plt.ylim(y_min, y_max): matplotlib raises ValueError for a NaN limit
SetYlim ==
    /\ pc = "ylim"
    /\ IF YMin(df).nan \/ YMax(df).nan
       THEN /\ pc' = "crashed"
            /\ exception' = "ValueError"
            /\ ylimits' = ylimits
       ELSE /\ pc' = "annotate"
            /\ exception' = exception
            /\ ylimits' = <<[lo |-> YMin(df), hi |-> YMax(df)]>>
    /\ UNCHANGED <<file, caller, output_dir, dirs, df, events, annotations, saved, stats>>

\* f"{x:.2f}": x to the nearest hundredth, as a number of hundredths ("nan" for NaN);
\* an exact tie goes to the even hundredth (no tie arises for the inputs above)
Format2(x) ==
    IF x.nan THEN [nan |-> TRUE, h |-> 0]
    ELSE LET q == Abs(x.n) * 100
             fl == q \div x.d
             rem == q % x.d
             up == (2 * rem > x.d) \/ (2 * rem = x.d /\ fl % 2 = 1)
             m == IF up THEN fl + 1 ELSE fl
         IN  [nan |-> FALSE, h |-> IF x.n < 0 THEN -m ELSE m]

\* variant: the comparison off by one
ShouldAnnotate_inclusive(d) == Len(d.rows) <= ANNOTATION_LIMIT

\* len(df) < 10
ShouldAnnotate(d) == Len(d.rows) < ANNOTATION_LIMIT

\* the plt.text calls of the loop over df.iterrows(): download then upload, row by row
RowTexts(d) ==
    [j \in 1..(2 * Len(d.rows)) |->
        LET row == d.rows[(j + 1) \div 2]
        IN  IF j % 2 = 1
            THEN [x |-> row.Timestamp, y |-> row.Download_Mbps,
                  text |-> Format2(row.Download_Mbps), va |-> "bottom"]
            ELSE [x |-> row.Timestamp, y |-> row.Upload_Mbps,
                  text |-> Format2(row.Upload_Mbps), va |-> "top"]]

\* the annotation loop, then plt.tight_layout()
Annotate ==
    /\ pc = "annotate"
    /\ annotations' = IF ShouldAnnotate(df) THEN RowTexts(df) ELSE <<>>
    /\ events' = Append(events, "tight_layout")
    /\ pc' = "save"
    /\ UNCHANGED <<file, caller, output_dir, dirs, df, ylimits, saved, stats, exception>>

\* variant: the test of output_dir left out
SaveRequested_always(od) == TRUE

\* if output_dir:
SaveRequested(od) == od # "None"

\* Path(output_dir) / "network_speed_over_time.png"
OutputPath(od) == od \o "/network_speed_over_time.png"

\* variant: the failure is caught and the function carries on
SaveFailure_swallowed == [pc |-> "show", exception |-> "none"]

\* a failed savefig raises; nothing catches it
SaveFailure == [pc |-> "crashed", exception |-> "OSError"]

\* whether savefig can write the file: never into a directory that does not exist,
\* and not always into one that does (permissions, disk)
SaveOutcomes(od) == IF od \in dirs THEN BOOLEAN ELSE {FALSE}

\* plt.savefig(output_path, dpi=300) and the confirmation line
Savefig ==
    /\ pc = "save"
    /\ IF SaveRequested(output_dir)
       THEN \E ok \in SaveOutcomes(output_dir) :
               IF ok
               THEN /\ saved' = saved \cup {OutputPath(output_dir)}
                    /\ events' = events \o <<"savefig", "saved: " \o OutputPath(output_dir)>>
                    /\ pc' = "show"
                    /\ exception' = exception
               ELSE /\ saved' = saved
                    /\ events' = Append(events, "savefig")
                    /\ pc' = SaveFailure.pc
                    /\ exception' = SaveFailure.exception
       ELSE /\ saved' = saved
            /\ events' = events
            /\ pc' = "show"
            /\ exception' = exception
    /\ UNCHANGED <<file, caller, output_dir, dirs, df, ylimits, annotations, stats>>

\* plt.show()
Show ==
    /\ pc = "show"
    /\ events' = Append(events, "show")
    /\ pc' = "stats"
    /\ UNCHANGED <<file, caller, output_dir, dirs, df, ylimits, annotations, saved, stats,
                   exception>>

RECURSIVE IntMin(_), IntMax(_)
IntMin(s) == IF Len(s) = 1 THEN s[1]
             ELSE LET m == IntMin(Tail(s)) IN IF m < s[1] THEN m ELSE s[1]
IntMax(s) == IF Len(s) = 1 THEN s[1]
             ELSE LET m == IntMax(Tail(s)) IN IF m > s[1] THEN m ELSE s[1]

\* variant: the first row's timestamp taken for the earliest
PeriodFrom_first_row(d) == d.rows[1].Timestamp

\* df['Timestamp'].min() and .max()
PeriodFrom(d) == IntMin(Series(d, "Timestamp"))
PeriodTo(d) == IntMax(Series(d, "Timestamp"))

\* the lines of the statistics block
Statistics(d) ==
    [period_from |-> PeriodFrom(d),
     period_to |-> PeriodTo(d),
     count |-> Len(d.rows),
     mean_download |-> Format2(SeriesMean(Series(d, "Download_Mbps"))),
     mean_upload |-> Format2(SeriesMean(Series(d, "Upload_Mbps"))),
     max_download |-> Format2(SeriesMax(Series(d, "Download_Mbps"))),
     max_upload |-> Format2(SeriesMax(Series(d, "Upload_Mbps"))),
     min_download |-> Format2(SeriesMin(Series(d, "Download_Mbps"))),
     min_upload |-> Format2(SeriesMin(Series(d, "Upload_Mbps")))]

PrintStatistics ==
    /\ pc = "stats"
    /\ stats' = <<Statistics(df)>>
    /\ events' = Append(events, "statistics")
    /\ pc' = "done"
    /\ UNCHANGED <<file, caller, output_dir, dirs, df, ylimits, annotations, saved, exception>>

----------------------------------------------------------------------------
(* main *)

\* output_dir.mkdir(exist_ok=True) and the two path lines
Main ==
    /\ pc = "main"
    /\ dirs' = dirs \cup {output_dir}
    /\ events' = events \o <<"log_file", "output_dir: " \o output_dir>>
    /\ pc' = "parse"
    /\ UNCHANGED <<file, caller, output_dir, df, ylimits, annotations, saved, stats, exception>>

----------------------------------------------------------------------------

Init ==
    /\ file \in Files
    /\ caller \in {"main", "direct"}
    /\ output_dir \in IF caller = "main" THEN {"reports"} ELSE {"None", "reports"}
    /\ dirs \in {{}, {"reports"}}
    /\ pc = IF caller = "main" THEN "main" ELSE "parse"
    /\ df = NoneDF
    /\ events = <<>>
    /\ ylimits = <<>>
    /\ annotations = <<>>
    /\ saved = {}
    /\ stats = <<>>
    /\ exception = "none"

Next ==
    \/ Main
    \/ ParseSpeedtestLog
    \/ VisualizeNoData
    \/ Plot
    \/ SetYlim
    \/ Annotate
    \/ Savefig
    \/ Show
    \/ PrintStatistics

Spec == Init /\ [][Next]_vars

----------------------------------------------------------------------------
(* Vocabulary of the properties *)

\* x <= y for two numbers that are not NaN
Le(x, y) == ~x.nan /\ ~y.nan /\ x.n * y.d <= y.n * x.d

Parsed == pc \notin {"main", "parse"}

Count(S) == Cardinality({i \in DOMAIN events : events[i] \in S})

ParseDiagnostics ==
    {"parse_error: " \o e :
        e \in {"FileNotFoundError", "EmptyDataError", "KeyError", "ValueError", "TypeError"}}

SavedLine == "saved: reports/network_speed_over_time.png"

RenderEvents == {"plot", "tight_layout", "savefig", SavedLine, "show", "statistics"}

NothingRendered ==
    /\ Count(RenderEvents) = 0
    /\ saved = {}
    /\ stats = <<>>
    /\ annotations = <<>>
    /\ ylimits = <<>>

\* the lines printed before visualize_speed_over_time is entered
LinesBeforeVisualize == (IF caller = "main" THEN 2 ELSE 0) + (IF df.isNone THEN 1 ELSE 0)

\* the file is missing, lacks a required column, or holds an unparsable timestamp or
\* a non-numeric throughput value in some row
Malformed(f) ==
    \/ f.kind = "missing"
    \/ /\ f.kind = "table"
       /\ \/ "Timestamp" \notin f.header
          \/ "Download" \notin f.header
          \/ "Upload" \notin f.header
          \/ \E i \in 1..Len(f.rows) :
                \/ f.rows[i].Timestamp \notin {T0, T1}
                \/ f.rows[i].Download.k = "text"
                \/ f.rows[i].Upload.k = "text"

----------------------------------------------------------------------------
(* C1: parse_speedtest_log returns a complete dataset or None, never a     *)
(* partial one: for a missing file, a missing Timestamp / Download /       *)
(* Upload column, an unparsable timestamp or a non-numeric throughput      *)
(* value in any row, the result is None, exactly one parse-failure         *)
(* diagnostic is printed and no exception escapes.                         *)
C1_ParseAllOrNothing ==
    Parsed =>
        /\ Malformed(file) => /\ df.isNone
                              /\ Count(ParseDiagnostics) = 1
                              /\ exception = "none"
        /\ ~df.isNone => /\ Len(df.rows) = Len(file.rows)
                         /\ Count(ParseDiagnostics) = 0
        /\ df.isNone => Count(ParseDiagnostics) = 1

\* a two-row file whose first row is fine and whose second row has text for Upload
C1_Witness ==
    /\ pc = "visualize"
    /\ file.kind = "table"
    /\ file.header = Columns
    /\ Len(file.rows) = 2
    /\ file.rows[1] = FillRow(1)
    /\ file.rows[2].Timestamp = T1
    /\ file.rows[2].Download.k = "num"
    /\ file.rows[2].Upload.k = "text"
    /\ df.isNone
    /\ events[Len(events)] = "parse_error: TypeError"

(* C2: called with no dataset (None) or a dataset of zero records,         *)
(* visualize_speed_over_time plots nothing, saves nothing, shows nothing,  *)
(* prints no statistics, prints exactly one diagnostic and returns         *)
(* normally, with or without an output directory.                          *)
C2_NoDataIsNoOp ==
    (Parsed /\ (df.isNone \/ Len(df.rows) = 0)) =>
        /\ NothingRendered
        /\ exception = "none"
        /\ pc \in {"visualize", "done"}
        /\ pc = "visualize" => /\ Count({"no_data"}) = 0
                               /\ Len(events) = LinesBeforeVisualize
        /\ pc = "done" => /\ Count({"no_data"}) = 1
                          /\ Len(events) = LinesBeforeVisualize + 1
                          /\ events[Len(events)] = "no_data"

\* a header-only file: the dataset exists and has zero records
C2_Witness ==
    /\ pc = "done"
    /\ ~df.isNone
    /\ Len(df.rows) = 0
    /\ output_dir = "reports"
    /\ events[Len(events)] = "no_data"

(* C3: a run of main with the log file missing prints the parse-failure    *)
(* diagnostic, saves and shows no chart, prints no statistics and ends     *)
(* normally, no exception reaching the top level; whenever parsing gave no *)
(* dataset nothing is rendered.                                            *)
C3_MissingFileCleanExit ==
    /\ (caller = "main" /\ file.kind = "missing") =>
            /\ exception = "none"
            /\ pc # "crashed"
            /\ NothingRendered
            /\ Parsed => Count({"parse_error: FileNotFoundError"}) = 1
            /\ pc # "done" => ENABLED Next
    /\ (Parsed /\ df.isNone) => NothingRendered

C3_Witness ==
    /\ caller = "main"
    /\ file.kind = "missing"
    /\ pc = "done"
    /\ events = <<"log_file", "output_dir: reports",
                  "parse_error: FileNotFoundError", "no_data">>

(* C4: for a non-empty dataset the point annotations are drawn exactly     *)
(* when it has fewer than 10 records: 2n of them for n < 10 records, one   *)
(* download and one upload per record, and none for n >= 10.               *)
C4_AnnotationThreshold ==
    /\ Count({"tight_layout"}) = 0 => annotations = <<>>
    /\ Count({"tight_layout"}) > 0 =>
        LET n == Len(df.rows)
        IN  /\ n >= 10 => Len(annotations) = 0
            /\ n < 10 =>
                /\ Len(annotations) = 2 * n
                /\ \A i \in 1..n :
                    /\ annotations[2 * i - 1].y = df.rows[i].Download_Mbps
                    /\ annotations[2 * i - 1].x = df.rows[i].Timestamp
                    /\ annotations[2 * i].y = df.rows[i].Upload_Mbps
                    /\ annotations[2 * i].x = df.rows[i].Timestamp

\* nine records, eighteen annotations
C4_Witness ==
    /\ pc = "done"
    /\ Len(df.rows) = 9
    /\ Len(annotations) = 18
    /\ stats # <<>>

\* m is the cell's value divided by exactly 1,000,000 (NaN for an empty cell)
IsMegaOf(m, cell) ==
    IF cell.k # "num" THEN m.nan
    ELSE LET g == GCD(Abs(cell.v), 1000000)
         IN  /\ ~m.nan
             /\ m.n * (1000000 \div g) = (cell.v \div g) * m.d

\* x is the cell's value itself
IsValueOf(x, cell) ==
    IF cell.k # "num" THEN x.nan ELSE ~x.nan /\ x.n = cell.v /\ x.d = 1

(* C7: in a parsed dataset Download_Mbps is Download / 1,000,000 and       *)
(* Upload_Mbps is Upload / 1,000,000 in every row, the dataset has as many *)
(* rows as the input, and its Nth row carries the Nth input row's values.  *)
C7_ExactMegaConversion ==
    (Parsed /\ ~df.isNone) =>
        /\ Len(df.rows) = Len(file.rows)
        /\ \A i \in 1..Len(df.rows) :
            /\ df.rows[i].Timestamp = (IF file.rows[i].Timestamp = T0 THEN 0 ELSE 60)
            /\ IsMegaOf(df.rows[i].Download_Mbps, file.rows[i].Download)
            /\ IsMegaOf(df.rows[i].Upload_Mbps, file.rows[i].Upload)
            /\ IsValueOf(df.rows[i].Download, file.rows[i].Download)
            /\ IsValueOf(df.rows[i].Upload, file.rows[i].Upload)

\* rows (100000000, 50000000) and (80000000, 40000000) give 100, 50 and 80, 40 Mbps
C7_Witness ==
    /\ pc = "visualize"
    /\ file.kind = "table"
    /\ file.rows = FillRows(2)
    /\ ~df.isNone
    /\ df.rows[1].Download_Mbps = [nan |-> FALSE, n |-> 100, d |-> 1]
    /\ df.rows[1].Upload_Mbps = [nan |-> FALSE, n |-> 50, d |-> 1]
    /\ df.rows[2].Download_Mbps = [nan |-> FALSE, n |-> 80, d |-> 1]
    /\ df.rows[2].Upload_Mbps = [nan |-> FALSE, n |-> 40, d |-> 1]

\* the input rows whose cell in column c is a number, and the sum of those numbers
NumRows(c) == {i \in 1..Len(file.rows) : file.rows[i][c].k = "num"}

RECURSIVE SumBps(_, _)
SumBps(c, n) ==
    IF n = 0 THEN 0
    ELSE SumBps(c, n - 1) + (IF file.rows[n][c].k = "num" THEN file.rows[n][c].v ELSE 0)

TimeOf(i) == IF file.rows[i].Timestamp = T0 THEN 0 ELSE 60

\* p is bps / 1,000,000 printed to two decimals (p.h counts hundredths of a Mbps)
PrintsMbps(p, bps) == ~p.nan /\ Abs(p.h * 10000 - bps) <= 5000

\* p is (sum / k) / 1,000,000 printed to two decimals
PrintsMeanMbps(p, sum, k) == ~p.nan /\ Abs(p.h * k * 10000 - sum) <= k * 5000

ColumnStatistics(c, mean, max, min) ==
    IF NumRows(c) = {} THEN mean.nan /\ max.nan /\ min.nan
    ELSE /\ \E i \in NumRows(c) :
                /\ \A j \in NumRows(c) : file.rows[j][c].v <= file.rows[i][c].v
                /\ PrintsMbps(max, file.rows[i][c].v)
         /\ \E i \in NumRows(c) :
                /\ \A j \in NumRows(c) : file.rows[j][c].v >= file.rows[i][c].v
                /\ PrintsMbps(min, file.rows[i][c].v)
         /\ PrintsMeanMbps(mean, SumBps(c, Len(file.rows)), Cardinality(NumRows(c)))

Printed(h) == [nan |-> FALSE, h |-> h]

(* C8: for a non-empty dataset the statistics block reports the record     *)
(* count, the span from the earliest to the latest timestamp whatever the  *)
(* row order, and the mean, maximum and minimum of the download and of the *)
(* upload Mbps values over the whole dataset; for the rows                 *)
(* (100000000, 50000000) and (80000000, 40000000): count 2, download       *)
(* 90.00 / 100.00 / 80.00, upload 45.00 / 50.00 / 40.00.                   *)
C8_Statistics ==
    stats # <<>> =>
        LET s == stats[1]
            n == Len(file.rows)
        IN  /\ n > 0
            /\ s.count = n
            /\ \E i \in 1..n : TimeOf(i) = s.period_from
            /\ \A i \in 1..n : s.period_from <= TimeOf(i)
            /\ \E i \in 1..n : TimeOf(i) = s.period_to
            /\ \A i \in 1..n : TimeOf(i) <= s.period_to
            /\ ColumnStatistics("Download", s.mean_download, s.max_download, s.min_download)
            /\ ColumnStatistics("Upload", s.mean_upload, s.max_upload, s.min_upload)
            /\ file.rows = FillRows(2) =>
                s = [period_from |-> 0, period_to |-> 60, count |-> 2,
                     mean_download |-> Printed(9000), mean_upload |-> Printed(4500),
                     max_download |-> Printed(10000), max_upload |-> Printed(5000),
                     min_download |-> Printed(8000), min_upload |-> Printed(4000)]

\* the two-row example, statistics printed
C8_Witness ==
    /\ pc = "done"
    /\ file.rows = FillRows(2)
    /\ stats # <<>>
    /\ stats[1].count = 2
    /\ stats[1].mean_download = Printed(9000)
    /\ stats[1].mean_upload = Printed(4500)

IsPrefix(a, b) == Len(a) <= Len(b) /\ \A i \in 1..Len(a) : a[i] = b[i]

\* the rendering calls and lines of a run, in order
RenderTrace ==
    SelectSeq(events, LAMBDA e : e \in {"plot", "savefig", SavedLine, "show", "statistics"})

ExpectedTrace ==
    IF output_dir = "None"
    THEN <<"plot", "show", "statistics">>
    ELSE <<"plot", "savefig", SavedLine, "show", "statistics">>

(* C9: for a non-empty dataset the chart is saved to                       *)
(* <output_dir>/network_speed_over_time.png exactly once if and only if an *)
(* output directory is supplied, the confirmation is printed only after a  *)
(* successful save, the chart is shown exactly once either way, and the    *)
(* order is plot, save, confirmation, display, statistics.                 *)
C9_SaveShowOrder ==
    (Parsed /\ ~df.isNone /\ Len(df.rows) > 0) =>
        /\ IsPrefix(RenderTrace, ExpectedTrace)
        /\ saved \subseteq {"reports/network_speed_over_time.png"}
        /\ Count({SavedLine}) > 0 => saved # {}
        /\ saved # {} => output_dir = "reports" /\ Count({"savefig"}) = 1
        /\ pc = "done" =>
            /\ RenderTrace = ExpectedTrace
            /\ Count({"show"}) = 1
            /\ (saved # {}) <=> (output_dir # "None")
            /\ Count({"savefig"}) = (IF output_dir # "None" THEN 1 ELSE 0)

\* a finished run that saved, and one is enough to see the full order
C9_Witness ==
    /\ pc = "done"
    /\ Len(df.rows) > 0
    /\ output_dir = "reports"
    /\ saved = {"reports/network_speed_over_time.png"}
    /\ RenderTrace = <<"plot", "savefig", SavedLine, "show", "statistics">>

(* C10: a rendering failure is not recovered or retried: when saving the   *)
(* chart fails the failure leaves visualize_speed_over_time and main as a  *)
(* fatal error, no confirmation is printed, the chart is not shown, the    *)
(* statistics are not printed, and the save is attempted at most once.     *)
C10_SaveFailureIsFatal ==
    /\ Count({"savefig"}) <= 1
    /\ (Count({"savefig"}) = 1 /\ saved = {}) =>
            /\ pc = "crashed"
            /\ exception = "OSError"
    /\ exception # "none" =>
            /\ pc = "crashed"
            /\ Count({SavedLine, "show", "statistics"}) = 0
            /\ stats = <<>>
            /\ saved = {}
            /\ ~ENABLED Next

\* the run that died in savefig
C10_Witness ==
    /\ pc = "crashed"
    /\ exception = "OSError"
    /\ events[Len(events)] = "savefig"
    /\ caller = "main"
    /\ "reports" \in dirs

\* the values plotted: every Mbps value of either series that is present
PlottedValues ==
    {v \in {df.rows[i].Download_Mbps : i \in 1..Len(df.rows)}
           \cup {df.rows[i].Upload_Mbps : i \in 1..Len(df.rows)} : ~v.nan}

\* the limits are 0.9 times the least and 1.1 times the greatest plotted value
YLimitsArePaddedExtremes ==
    ylimits # <<>> =>
        /\ \E v \in PlottedValues :
                /\ \A w \in PlottedValues : Le(v, w)
                /\ ylimits[1].lo = Mul(v, 9, 10)
        /\ \E v \in PlottedValues :
                /\ \A w \in PlottedValues : Le(w, v)
                /\ ylimits[1].hi = Mul(v, 11, 10)

(* C5: for a non-empty dataset y_min is 0.9 times the minimum and y_max is *)
(* 1.1 times the maximum over the download and upload Mbps values taken    *)
(* together, so that every plotted value lies within [y_min, y_max].       *)
C5_YAxisBounds ==
    /\ YLimitsArePaddedExtremes
    /\ ylimits # <<>> =>
            \A v \in PlottedValues : Le(ylimits[1].lo, v) /\ Le(v, ylimits[1].hi)

(* C6: every record of a dataset parse_speedtest_log returns has a valid   *)
(* timestamp and two non-negative throughput values; a row with a negative *)
(* or missing Download or Upload value never appears in a returned dataset.*)
C6_NonNegativeRecords ==
    (Parsed /\ ~df.isNone) =>
        \A i \in 1..Len(df.rows) :
            /\ df.rows[i].Timestamp \in {0, 60}
            /\ ~df.rows[i].Download.nan /\ df.rows[i].Download.n >= 0
            /\ ~df.rows[i].Upload.nan /\ df.rows[i].Upload.n >= 0

====
